---- MODULE Spec2Model ----
(***************************************************************************)
(* Reconciliation pipeline of scripts/data_extraction.py:                  *)
(*   merge_datasets -> process_data (complete_records_data,                *)
(*   only_student_data, only_supervisor_data,                              *)
(*   join_only_student_supervisor_data, concat and the two idx filters).   *)
(*                                                                         *)
(* A table is a sequence of rows, a row is a record of cells, and every    *)
(* cell is a sequence of integers: a string is the sequence of its code    *)
(* points, a number is a one-element sequence, NaN/None is NULL.  Name     *)
(* columns are string (object) columns that may hold NaN.                  *)
(*                                                                         *)
(* ssSelf stands for the intern table's non-key columns (RecordedDate,     *)
(* intTitle, ssSelf_1..ssSelf_27) and ssSup for the supervisor table's     *)
(* (RecordedDate, ssSup_1..ssSup_27, improveText, strengthText); each      *)
(* holds the position of the submission in its input table, so that a      *)
(* submission can be followed through the pipeline.                        *)
(*                                                                         *)
(* Spec runs the pipeline on rows.  SpecColumns runs it on the columns of  *)
(* its tables and the files it writes, SpecNorm runs the normalisation of  *)
(* one name cell, SpecReport the feedback handling of the report           *)
(* functions of scripts/reports_generation.py, SpecPoll download_survey.   *)
(***************************************************************************)
EXTENDS Integers, Sequences, FiniteSets, TLC

\* Total number of submissions loaded (intern rows plus supervisor rows).
MaxRows == 4

\* The longest name cell the normalisation is applied to.
MaxLen == 3

\* The most polls download_survey makes of one export.
MaxPolls == 3

NULL == << -1 >>

Num(n) == << n >>

Min(S) == CHOOSE x \in S : \A y \in S : x <= y
Max(S) == CHOOSE x \in S : \A y \in S : x >= y

RECURSIVE Concat(_)
Concat(ss) == IF ss = << >> THEN << >> ELSE Head(ss) \o Concat(Tail(ss))

Range(t) == { t[i] : i \in DOMAIN t }

-----------------------------------------------------------------------------
(* Normalisation: Series.str.lower().str.strip(), cell by cell.            *)

\* str.strip() with no argument removes leading and trailing whitespace.
Whitespace == {9, 10, 11, 12, 13, 28, 29, 30, 31, 32}

StrLower(s) == [i \in 1..Len(s) |-> IF s[i] \in 65..90 THEN s[i] + 32 ELSE s[i]]

\* Mutant: one whitespace character is removed at either end, no more.
StrStripOne(s) ==
    LET a == IF s # << >> /\ s[1] \in Whitespace THEN 2 ELSE 1
        b == IF Len(s) >= a /\ s[Len(s)] \in Whitespace THEN Len(s) - 1 ELSE Len(s)
    IN  SubSeq(s, a, b)

StrStrip(s) ==
    LET keep == { i \in 1..Len(s) : s[i] \notin Whitespace }
    IN  IF keep = {} THEN << >> ELSE SubSeq(s, Min(keep), Max(keep))

\* .str methods leave NaN as NaN.
Normalize(v) == IF v = NULL THEN NULL ELSE StrStrip(StrLower(v))

NormalizeIntern(t) ==
    [i \in 1..Len(t) |->
        [t[i] EXCEPT !.stuFirst = Normalize(@), !.stuLast = Normalize(@),
                     !.supLinkFirst = Normalize(@), !.supLinkLast = Normalize(@)]]

NormalizeSupervisor(t) ==
    [i \in 1..Len(t) |->
        [t[i] EXCEPT !.supFirst = Normalize(@), !.supLast = Normalize(@),
                     !.firstNameIntern = Normalize(@), !.lastNameIntern = Normalize(@)]]

-----------------------------------------------------------------------------
(* The inputs: the four name cells of a submission, as typed.  On the      *)
(* intern side they are (stuFirst, stuLast, supLinkFirst, supLinkLast), on *)
(* the supervisor side (firstNameIntern, lastNameIntern, supFirst,         *)
(* supLast).                                                               *)

Keys ==
    { << <<65,110>>,    <<76,105>>,    <<69,100>>,  <<79,104>> >>,    \* "An","Li","Ed","Oh"
      << <<32,97,110>>, <<76,73,32>>,  <<101,100>>, <<32,111,104>> >>,\* " an","LI ","ed"," oh"
      << <<97,110>>,    <<108,105>>,   <<97,108>>,  <<111,104>> >>,   \* "an","li","al","oh"
      << <<97,110>>,    <<108,105>>,   <<97,108>>,  <<121,117>> >>,   \* "an","li","al","yu"
      << <<98,111>>,    <<108,105>>,   <<101,100>>, <<111,104>> >>,   \* "bo","li","ed","oh"
      << <<97,110>>,    <<108,105>>,   NULL,        <<111,104>> >>,   \* "an","li",NaN,"oh"
      << NULL,          NULL,          NULL,        NULL >> }         \* no name given

InternRow(k, i) ==
    [stuFirst |-> k[1], stuLast |-> k[2], supLinkFirst |-> k[3], supLinkLast |-> k[4],
     ssSelf |-> Num(i)]

SupervisorRow(k, i) ==
    [firstNameIntern |-> k[1], lastNameIntern |-> k[2], supFirst |-> k[3], supLast |-> k[4],
     ssSup |-> Num(i)]

-----------------------------------------------------------------------------
(* DataFrame.merge                                                         *)

MergeKeyLeft(r) == << r.stuFirst, r.stuLast, r.supLinkFirst, r.supLinkLast >>

MergeKeyRight(r) == << r.firstNameIntern, r.lastNameIntern, r.supFirst, r.supLast >>

\* Python's order on str: by code point, a proper prefix first.
StrLess(s, t) ==
    \E i \in 1..(Len(s) + 1) :
        /\ i <= Len(t)
        /\ \A j \in 1..(i - 1) : s[j] = t[j]
        /\ (i = Len(s) + 1 \/ s[i] < t[i])

\* The sorted factorisation of a key column puts NaN after every value.
CellLess(a, b) ==
    IF a = NULL THEN FALSE ELSE IF b = NULL THEN TRUE ELSE StrLess(a, b)

KeyLess(k1, k2) ==
    \E j \in 1..Len(k1) :
        /\ \A m \in 1..(j - 1) : k1[m] = k2[m]
        /\ CellLess(k1[j], k2[j])

RECURSIVE SortKeys(_)
SortKeys(S) ==
    IF S = {} THEN << >>
    ELSE LET m == CHOOSE k \in S : \A o \in S \ {k} : KeyLess(k, o)
         IN  << m >> \o SortKeys(S \ {m})

LeftOnly(l) ==
    [stuFirst |-> l.stuFirst, stuLast |-> l.stuLast, supLinkFirst |-> l.supLinkFirst,
     supLinkLast |-> l.supLinkLast, ssSelf |-> l.ssSelf,
     firstNameIntern |-> NULL, lastNameIntern |-> NULL, supFirst |-> NULL,
     supLast |-> NULL, ssSup |-> NULL]

RightOnly(r) ==
    [stuFirst |-> NULL, stuLast |-> NULL, supLinkFirst |-> NULL,
     supLinkLast |-> NULL, ssSelf |-> NULL,
     firstNameIntern |-> r.firstNameIntern, lastNameIntern |-> r.lastNameIntern,
     supFirst |-> r.supFirst, supLast |-> r.supLast, ssSup |-> r.ssSup]

Both(l, r) ==
    [stuFirst |-> l.stuFirst, stuLast |-> l.stuLast, supLinkFirst |-> l.supLinkFirst,
     supLinkLast |-> l.supLinkLast, ssSelf |-> l.ssSelf,
     firstNameIntern |-> r.firstNameIntern, lastNameIntern |-> r.lastNameIntern,
     supFirst |-> r.supFirst, supLast |-> r.supLast, ssSup |-> r.ssSup]

\* how = "outer" on four key columns.  The key columns are factorised, NaN
\* getting a code of its own, so two keys are the same key when their cells
\* are the same cell by cell, NaN included.  The result is ordered by key,
\* lexicographically, and within a key it has every left row with every right
\* row, left-major; a key present on one side only gives that side's rows.
OuterMerge(left, right) ==
    LET keys  == { MergeKeyLeft(left[i]) : i \in DOMAIN left }
                   \cup { MergeKeyRight(right[j]) : j \in DOMAIN right }
        order == SortKeys(keys)
        Group(k) ==
            LET ls == SelectSeq(left, LAMBDA l : MergeKeyLeft(l) = k)
                rs == SelectSeq(right, LAMBDA r : MergeKeyRight(r) = k)
            IN  IF rs = << >> THEN [i \in 1..Len(ls) |-> LeftOnly(ls[i])]
                ELSE IF ls = << >> THEN [j \in 1..Len(rs) |-> RightOnly(rs[j])]
                ELSE Concat([i \in 1..Len(ls) |->
                                [j \in 1..Len(rs) |-> Both(ls[i], rs[j])]])
    IN  Concat([g \in 1..Len(order) |-> Group(order[g])])


-----------------------------------------------------------------------------
(* The partitions of process_data                                          *)

RECURSIVE Pick(_, _)
\* The rows of t at the positions I, in table order.
Pick(t, I) ==
    IF I = {} THEN << >>
    ELSE LET m == Min(I) IN << t[m] >> \o Pick(t, I \ {m})

InternColumns == {"stuFirst", "stuLast", "supLinkFirst", "supLinkLast", "ssSelf"}

SupervisorColumns == {"firstNameIntern", "lastNameIntern", "supFirst", "supLast", "ssSup"}

Columns(r, cols) == [c \in cols |-> r[c]]

\* merged_data.insert(<position>, 'idx', merged_data.index), the index being
\* 0..n-1 after reset_index(drop=True).
InsertIdx(t) == [i \in 1..Len(t) |-> [idx |-> Num(i - 1)] @@ t[i]]

InternKeysNotNa(r) ==
    /\ r.stuFirst # NULL /\ r.stuLast # NULL
    /\ r.supLinkFirst # NULL /\ r.supLinkLast # NULL

InternKeysIsNa(r) ==
    /\ r.stuFirst = NULL /\ r.stuLast = NULL
    /\ r.supLinkFirst = NULL /\ r.supLinkLast = NULL

SupervisorKeysNotNa(r) ==
    /\ r.firstNameIntern # NULL /\ r.lastNameIntern # NULL
    /\ r.supFirst # NULL /\ r.supLast # NULL

SupervisorKeysIsNa(r) ==
    /\ r.firstNameIntern = NULL /\ r.lastNameIntern = NULL
    /\ r.supFirst = NULL /\ r.supLast = NULL

InternKeyColumns == {"stuFirst", "stuLast", "supLinkFirst", "supLinkLast"}

SupervisorKeyColumns == {"firstNameIntern", "lastNameIntern", "supFirst", "supLast"}

key_columns == InternKeyColumns \cup SupervisorKeyColumns

\* drop_duplicates(subset = ...) with the default keep = "first".
DropDuplicates(t, subset) ==
    Pick(t, { i \in 1..Len(t) :
                \A j \in 1..(i - 1) : Columns(t[j], subset) # Columns(t[i], subset) })

\* Mutant: dropna(subset = key_columns, how = "all").
CompleteRecordsDataHowAll(m) ==
    LET withIdx == InsertIdx(m)
        notna   == SelectSeq(withIdx, LAMBDA r : ~(InternKeysIsNa(r) /\ SupervisorKeysIsNa(r)))
    IN  DropDuplicates(notna, key_columns)

CompleteRecordsData(m) ==
    LET withIdx == InsertIdx(m)
        notna   == SelectSeq(withIdx, LAMBDA r : InternKeysNotNa(r) /\ SupervisorKeysNotNa(r))
    IN  DropDuplicates(notna, key_columns)

\* Mutant: the notna filter on the intern-side key fields is left out.
OnlyStudentDataNoNotNa(m) ==
    LET withIdx == InsertIdx(m)
        alone   == SelectSeq(withIdx, SupervisorKeysIsNa)
        dedup   == DropDuplicates(alone, InternKeyColumns)
    IN  [i \in 1..Len(dedup) |-> Columns(dedup[i], {"idx"} \cup InternColumns)]

\* Mutant: idx is the position in the filtered table, not in the joined table.
OnlyStudentDataIdxAfterFilter(m) ==
    LET intern  == SelectSeq(m, InternKeysNotNa)
        alone   == SelectSeq(intern, SupervisorKeysIsNa)
        withIdx == InsertIdx(alone)
        dedup   == DropDuplicates(withIdx, InternKeyColumns)
    IN  [i \in 1..Len(dedup) |-> Columns(dedup[i], {"idx"} \cup InternColumns)]

\* Mutant: the filter on the supervisor-side key fields is left out.
OnlyStudentDataAnySupervisor(m) ==
    LET withIdx == InsertIdx(m)
        intern  == SelectSeq(withIdx, InternKeysNotNa)
        dedup   == DropDuplicates(intern, InternKeyColumns)
    IN  [i \in 1..Len(dedup) |-> Columns(dedup[i], {"idx"} \cup InternColumns)]

OnlyStudentData(m) ==
    LET withIdx == InsertIdx(m)
        intern  == SelectSeq(withIdx, InternKeysNotNa)
        alone   == SelectSeq(intern, SupervisorKeysIsNa)
        dedup   == DropDuplicates(alone, InternKeyColumns)
    IN  [i \in 1..Len(dedup) |-> Columns(dedup[i], {"idx"} \cup InternColumns)]

\* Mutant: the filter on the intern-side key fields is left out.
OnlySupervisorDataAnyIntern(m) ==
    LET withIdx == InsertIdx(m)
        super   == SelectSeq(withIdx, SupervisorKeysNotNa)
        dedup   == DropDuplicates(super, SupervisorKeyColumns)
    IN  [i \in 1..Len(dedup) |-> Columns(dedup[i], {"idx"} \cup SupervisorColumns)]

\* Mutant: drop_duplicates(..., keep = "last").
OnlySupervisorDataKeepLast(m) ==
    LET withIdx == InsertIdx(m)
        super   == SelectSeq(withIdx, SupervisorKeysNotNa)
        alone   == SelectSeq(super, InternKeysIsNa)
        dedup   == Pick(alone, { i \in 1..Len(alone) :
                       \A j \in (i + 1)..Len(alone) :
                           MergeKeyRight(alone[j]) # MergeKeyRight(alone[i]) })
    IN  [i \in 1..Len(dedup) |-> Columns(dedup[i], {"idx"} \cup SupervisorColumns)]

OnlySupervisorData(m) ==
    LET withIdx == InsertIdx(m)
        super   == SelectSeq(withIdx, SupervisorKeysNotNa)
        alone   == SelectSeq(super, InternKeysIsNa)
        dedup   == DropDuplicates(alone, SupervisorKeyColumns)
    IN  [i \in 1..Len(dedup) |-> Columns(dedup[i], {"idx"} \cup SupervisorColumns)]

-----------------------------------------------------------------------------
(* join_only_student_supervisor_data and the final tables                  *)

JoinKeyLeft(r) == << r.stuFirst, r.stuLast >>

JoinKeyRight(r) == << r.firstNameIntern, r.lastNameIntern >>

\* Both tables have a column idx, which the merge renames idx_x and idx_y.
Joined(l, r) ==
    [idx_x |-> l.idx] @@ Columns(l, InternColumns)
        @@ [idx_y |-> r.idx] @@ Columns(r, SupervisorColumns)

\* Mutant: the join is on the last name alone.
InnerMergeOnLastName(left, right) ==
    Concat([i \in 1..Len(left) |->
        LET rs == SelectSeq(right, LAMBDA r : r.lastNameIntern = left[i].stuLast)
        IN  [j \in 1..Len(rs) |-> Joined(left[i], rs[j])]])

\* Mutant: the join is on all four name columns, as in merge_datasets.
InnerMergeOnAllKeys(left, right) ==
    Concat([i \in 1..Len(left) |->
        LET rs == SelectSeq(right, LAMBDA r : MergeKeyRight(r) = MergeKeyLeft(left[i]))
        IN  [j \in 1..Len(rs) |-> Joined(left[i], rs[j])]])

\* how = "inner": the order of the left keys is kept; every left row is
\* paired with every right row of the same key.
InnerMerge(left, right) ==
    Concat([i \in 1..Len(left) |->
        LET rs == SelectSeq(right, LAMBDA r : JoinKeyRight(r) = JoinKeyLeft(left[i]))
        IN  [j \in 1..Len(rs) |-> Joined(left[i], rs[j])]])

AllColumns == {"idx", "idx_x", "idx_y"} \cup InternColumns \cup SupervisorColumns

\* pd.concat fills the columns a frame does not have with NaN.
Reindex(r) == [c \in AllColumns |-> IF c \in DOMAIN r THEN r[c] ELSE NULL]

\* Mutant: the concatenation is followed by drop_duplicates on the student name.
PdConcatDropDuplicates(a, b) ==
    DropDuplicates([i \in 1..(Len(a) + Len(b)) |->
                       IF i <= Len(a) THEN Reindex(a[i]) ELSE Reindex(b[i - Len(a)])],
                   {"stuFirst", "stuLast"})

PdConcat(a, b) == [i \in 1..(Len(a) + Len(b)) |->
                      IF i <= Len(a) THEN Reindex(a[i]) ELSE Reindex(b[i - Len(a)])]

\* Mutant: the negation is lost, df[df['idx'].isin(other[col])].
NotIsinNegationLost(df, other, col) ==
    SelectSeq(df, LAMBDA r : r.idx \in { other[k][col] : k \in DOMAIN other })

\* Mutant: the table is passed on unfiltered.
NotIsinNoFilter(df, other, col) == df

\* Mutant: the rowIds of the other side are used, idx_y for idx_x and back.
NotIsinOtherColumn(df, other, col) ==
    SelectSeq(df, LAMBDA r :
        r.idx \notin { other[k][IF col = "idx_x" THEN "idx_y" ELSE "idx_x"] : k \in DOMAIN other })

\* df[~(df['idx'].isin(other[col]))]
NotIsin(df, other, col) ==
    SelectSeq(df, LAMBDA r : r.idx \notin { other[k][col] : k \in DOMAIN other })

-----------------------------------------------------------------------------
(* The columns of the tables.  A table's columns are the sequence of its   *)
(* column names, in order; the operators below are what the pipeline's     *)
(* pandas calls do to that sequence.                                       *)

\* The columns get_data_after_recorded_date selects for the intern table.
InternSchema ==
    << "RecordedDate", "intTitle", "stuFirst", "stuLast", "supLinkFirst",
       "supLinkLast", "ssSelf_1", "ssSelf_2", "ssSelf_3", "ssSelf_4",
       "ssSelf_5", "ssSelf_6", "ssSelf_7", "ssSelf_8", "ssSelf_9",
       "ssSelf_10", "ssSelf_11", "ssSelf_12", "ssSelf_13", "ssSelf_14",
       "ssSelf_15", "ssSelf_16", "ssSelf_17", "ssSelf_18", "ssSelf_19",
       "ssSelf_20", "ssSelf_21", "ssSelf_22", "ssSelf_23", "ssSelf_24",
       "ssSelf_25", "ssSelf_26", "ssSelf_27" >>

\* The columns it selects for the supervisor table.
SupervisorSchema ==
    << "RecordedDate", "supFirst", "supLast", "firstNameIntern",
       "lastNameIntern", "ssSup_1", "ssSup_2", "ssSup_3", "ssSup_4",
       "ssSup_5", "ssSup_6", "ssSup_7", "ssSup_8", "ssSup_9", "ssSup_10",
       "ssSup_11", "ssSup_12", "ssSup_13", "ssSup_14", "ssSup_15",
       "ssSup_16", "ssSup_17", "ssSup_18", "ssSup_19", "ssSup_20",
       "ssSup_21", "ssSup_22", "ssSup_23", "ssSup_24", "ssSup_25",
       "ssSup_26", "ssSup_27", "improveText", "strengthText" >>

Has(cols, name) == \E i \in DOMAIN cols : cols[i] = name

Without(cols, names) == SelectSeq(cols, LAMBDA c : c \notin names)

IndexOf(cols, name) == CHOOSE i \in DOMAIN cols : cols[i] = name

\* left.merge(right, left_on = ..., right_on = ...): the left columns, then the
\* right ones; a name on both sides gets the suffixes _x and _y.
MergeColumns(left, right) ==
    [i \in 1..Len(left) |-> IF Has(right, left[i]) THEN left[i] \o "_x" ELSE left[i]]
    \o [j \in 1..Len(right) |-> IF Has(left, right[j]) THEN right[j] \o "_y" ELSE right[j]]

\* df.insert(loc, name, ...): name becomes the column at 0-based position loc.
InsertColumn(cols, loc, name) ==
    SubSeq(cols, 1, loc) \o << name >> \o SubSeq(cols, loc + 1, Len(cols))

\* df.loc[:, :label]
LocUpTo(cols, label) == SubSeq(cols, 1, IndexOf(cols, label))

\* df.loc[:, label:]
LocFrom(cols, label) == SubSeq(cols, IndexOf(cols, label), Len(cols))

-----------------------------------------------------------------------------
(* The feedback cells of a report row.  A cell is its Python type and its  *)
(* value, the value of a str being its code points.                        *)

Str(codes) == [type |-> "str", value |-> codes]

NaN == [type |-> "float", value |-> NULL]

Integer(n) == [type |-> "int", value |-> << n >>]

None == [type |-> "NoneType", value |-> << >>]

\* A local name that no statement has assigned yet.
Unbound == << -2 >>

\* "No feedback provided by the supervisor."
NoFeedback ==
    << 78, 111, 32, 102, 101, 101, 100, 98, 97, 99, 107, 32, 112, 114, 111,
       118, 105, 100, 101, 100, 32, 98, 121, 32, 116, 104, 101, 32, 115,
       117, 112, 101, 114, 118, 105, 115, 111, 114, 46 >>

\* not isinstance(v, str) or v == None or v == 0
NotFeedback(v) ==
    \/ v.type # "str"
    \/ v.type = "NoneType"
    \/ (v.type \in {"int", "float"} /\ v.value = << 0 >>)

\* not text.strip() or text.lower() == 'nan'
EmptyOrNan(text) == StrStrip(text) = << >> \/ StrLower(text) = << 110, 97, 110 >>

-----------------------------------------------------------------------------
VARIABLES
    pc,                              \* the statement the pipeline is at
    intern_data,                     \* the caller's intern table
    supervisor_data,                 \* the caller's supervisor table
    merged_data,                     \* what merge_datasets returned
    complete_records,
    only_student_data_df,
    only_supervisor_data_df,
    merged_only,                     \* process_data's merged_data after line 342
    processed_completed_data,
    processed_only_student_data,
    processed_only_supervisor_data

\* The same pipeline seen through its tables' columns and the files it writes.
VARIABLES
    columns_pc,                      \* the statement the pipeline is at
    intern_data_columns,             \* intern_data.columns
    supervisor_data_columns,         \* supervisor_data.columns
    merged_data_columns,
    complete_records_columns,
    only_student_columns,            \* only_student_data_df.columns
    only_supervisor_columns,         \* only_supervisor_data_df.columns
    merged_only_columns,
    written                          \* the CSV files written so far

\* The normalisation of one name cell.
VARIABLES
    norm_pc,
    norm_s,                          \* the cell as typed
    norm_once,                       \* .str.lower().str.strip() of norm_s
    norm_twice                       \* the same of norm_once

\* generate_complete_report and generate_only_supervisor_report on one row.
VARIABLES
    report_pc,
    report_fn,                       \* which of the two functions runs
    row,                             \* the row's improveText and strengthText
    improv,
    streng

\* download_survey.
VARIABLES
    poll_pc,
    progress_id,
    progress_status,
    file_id,
    percent_complete,
    polls,                           \* the polls made so far
    download_url

pipeline_vars == << pc, intern_data, supervisor_data, merged_data, complete_records,
                    only_student_data_df, only_supervisor_data_df, merged_only,
                    processed_completed_data, processed_only_student_data,
                    processed_only_supervisor_data >>

columns_vars == << columns_pc, intern_data_columns, supervisor_data_columns,
                   merged_data_columns, complete_records_columns, only_student_columns,
                   only_supervisor_columns, merged_only_columns, written >>

norm_vars == << norm_pc, norm_s, norm_once, norm_twice >>

report_vars == << report_pc, report_fn, row, improv, streng >>

poll_vars == << poll_pc, progress_id, progress_status, file_id, percent_complete,
                polls, download_url >>

vars == << pipeline_vars, columns_vars, norm_vars, report_vars, poll_vars >>

\* Each specification below runs one part of the program; the variables of
\* the other parts rest at these values.
PipelineIdle ==
    /\ pc = "idle"
    /\ intern_data = << >> /\ supervisor_data = << >> /\ merged_data = << >>
    /\ complete_records = << >>
    /\ only_student_data_df = << >> /\ only_supervisor_data_df = << >>
    /\ merged_only = << >>
    /\ processed_completed_data = << >>
    /\ processed_only_student_data = << >>
    /\ processed_only_supervisor_data = << >>

ColumnsIdle ==
    /\ columns_pc = "idle"
    /\ intern_data_columns = << >> /\ supervisor_data_columns = << >>
    /\ merged_data_columns = << >> /\ complete_records_columns = << >>
    /\ only_student_columns = << >> /\ only_supervisor_columns = << >>
    /\ merged_only_columns = << >>
    /\ written = {}

NormIdle ==
    /\ norm_pc = "idle"
    /\ norm_s = NULL /\ norm_once = NULL /\ norm_twice = NULL

ReportIdle ==
    /\ report_pc = "idle" /\ report_fn = "idle"
    /\ row = [improveText |-> None, strengthText |-> None]
    /\ improv = Unbound /\ streng = Unbound

PollIdle ==
    /\ poll_pc = "idle"
    /\ progress_id = None /\ file_id = None
    /\ progress_status = "idle"
    /\ percent_complete = Unbound
    /\ polls = 0
    /\ download_url = << >>

Init ==
    /\ pc = "merge_datasets"
    /\ \E ni \in 0..MaxRows : \E ns \in 0..(MaxRows - ni) :
         \E ki \in [1..ni -> Keys] : \E ks \in [1..ns -> Keys] :
            /\ intern_data = [i \in 1..ni |-> InternRow(ki[i], i)]
            /\ supervisor_data = [j \in 1..ns |-> SupervisorRow(ks[j], j)]
    /\ merged_data = << >>
    /\ complete_records = << >>
    /\ only_student_data_df = << >>
    /\ only_supervisor_data_df = << >>
    /\ merged_only = << >>
    /\ processed_completed_data = << >>
    /\ processed_only_student_data = << >>
    /\ processed_only_supervisor_data = << >>
    /\ ColumnsIdle /\ NormIdle /\ ReportIdle /\ PollIdle

\* merge_datasets assigns the normalised columns into the tables it was
\* given, then merges them.
MergeDatasets ==
    /\ pc = "merge_datasets"
    /\ intern_data' = NormalizeIntern(intern_data)
    /\ supervisor_data' = NormalizeSupervisor(supervisor_data)
    /\ merged_data' = OuterMerge(intern_data', supervisor_data')
    /\ pc' = "complete_records_data"
    /\ UNCHANGED << columns_vars, norm_vars, report_vars, poll_vars >>
    /\ UNCHANGED << complete_records, only_student_data_df, only_supervisor_data_df,
                    merged_only, processed_completed_data,
                    processed_only_student_data, processed_only_supervisor_data >>

\* process_data, line 334: complete_records_data(merged_data.copy())
CompleteRecords ==
    /\ pc = "complete_records_data"
    /\ complete_records' = CompleteRecordsData(merged_data)
    /\ pc' = "only_student_data"
    /\ UNCHANGED << columns_vars, norm_vars, report_vars, poll_vars >>
    /\ UNCHANGED << intern_data, supervisor_data, merged_data, only_student_data_df,
                    only_supervisor_data_df, merged_only, processed_completed_data,
                    processed_only_student_data, processed_only_supervisor_data >>

\* line 337: only_student_data(merged_data.copy())
OnlyStudent ==
    /\ pc = "only_student_data"
    /\ only_student_data_df' = OnlyStudentData(merged_data)
    /\ pc' = "only_supervisor_data"
    /\ UNCHANGED << columns_vars, norm_vars, report_vars, poll_vars >>
    /\ UNCHANGED << intern_data, supervisor_data, merged_data, complete_records,
                    only_supervisor_data_df, merged_only, processed_completed_data,
                    processed_only_student_data, processed_only_supervisor_data >>

\* line 339: only_supervisor_data(merged_data.copy())
OnlySupervisor ==
    /\ pc = "only_supervisor_data"
    /\ only_supervisor_data_df' = OnlySupervisorData(merged_data)
    /\ pc' = "join_only_student_supervisor_data"
    /\ UNCHANGED << columns_vars, norm_vars, report_vars, poll_vars >>
    /\ UNCHANGED << intern_data, supervisor_data, merged_data, complete_records,
                    only_student_data_df, merged_only, processed_completed_data,
                    processed_only_student_data, processed_only_supervisor_data >>

\* line 342
JoinOnlyStudentSupervisor ==
    /\ pc = "join_only_student_supervisor_data"
    /\ merged_only' = InnerMerge(only_student_data_df, only_supervisor_data_df)
    /\ pc' = "processed_completed_data"
    /\ UNCHANGED << columns_vars, norm_vars, report_vars, poll_vars >>
    /\ UNCHANGED << intern_data, supervisor_data, merged_data, complete_records,
                    only_student_data_df, only_supervisor_data_df,
                    processed_completed_data, processed_only_student_data,
                    processed_only_supervisor_data >>

\* line 345
ProcessedCompleted ==
    /\ pc = "processed_completed_data"
    /\ processed_completed_data' = PdConcat(complete_records, merged_only)
    /\ pc' = "processed_only_student_data"
    /\ UNCHANGED << columns_vars, norm_vars, report_vars, poll_vars >>
    /\ UNCHANGED << intern_data, supervisor_data, merged_data, complete_records,
                    only_student_data_df, only_supervisor_data_df, merged_only,
                    processed_only_student_data, processed_only_supervisor_data >>

\* line 350
ProcessedOnlyStudent ==
    /\ pc = "processed_only_student_data"
    /\ processed_only_student_data' = NotIsin(only_student_data_df, merged_only, "idx_x")
    /\ pc' = "processed_only_supervisor_data"
    /\ UNCHANGED << columns_vars, norm_vars, report_vars, poll_vars >>
    /\ UNCHANGED << intern_data, supervisor_data, merged_data, complete_records,
                    only_student_data_df, only_supervisor_data_df, merged_only,
                    processed_completed_data, processed_only_supervisor_data >>

\* line 355
ProcessedOnlySupervisor ==
    /\ pc = "processed_only_supervisor_data"
    /\ processed_only_supervisor_data' =
           NotIsin(only_supervisor_data_df, merged_only, "idx_y")
    /\ pc' = "done"
    /\ UNCHANGED << columns_vars, norm_vars, report_vars, poll_vars >>
    /\ UNCHANGED << intern_data, supervisor_data, merged_data, complete_records,
                    only_student_data_df, only_supervisor_data_df, merged_only,
                    processed_completed_data, processed_only_student_data >>

Next ==
    \/ MergeDatasets
    \/ CompleteRecords
    \/ OnlyStudent
    \/ OnlySupervisor
    \/ JoinOnlyStudentSupervisor
    \/ ProcessedCompleted
    \/ ProcessedOnlyStudent
    \/ ProcessedOnlySupervisor

Spec == Init /\ [][Next]_vars

-----------------------------------------------------------------------------
(* merge_datasets and process_data on the columns of their tables.  The    *)
(* tables given to merge_datasets hold the columns of InternSchema and     *)
(* SupervisorSchema, less the absent ones, with further columns before or  *)
(* after them.                                                             *)

AbsentIntern == { {}, {"stuFirst"}, {"intTitle"}, {"ssSelf_27"} }

AbsentSupervisor == { {}, {"supLast"}, {"ssSup_1"}, {"improveText"} }

Leading == { << >>, << "ResponseId" >> }

Trailing == { << >>, << "Finished" >> }

InitColumns ==
    /\ columns_pc = "merge_datasets"
    /\ \E ai \in AbsentIntern : \E li \in Leading : \E ti \in Trailing :
          intern_data_columns = li \o Without(InternSchema, ai) \o ti
    /\ \E as \in AbsentSupervisor : \E ls \in Leading : \E ts \in Trailing :
          supervisor_data_columns = ls \o Without(SupervisorSchema, as) \o ts
    /\ merged_data_columns = << >>
    /\ complete_records_columns = << >>
    /\ only_student_columns = << >>
    /\ only_supervisor_columns = << >>
    /\ merged_only_columns = << >>
    /\ written = {}
    /\ PipelineIdle /\ NormIdle /\ ReportIdle /\ PollIdle

\* merge_datasets: indexing a column the table lacks raises KeyError; else
\* the tables are merged and merged_data.csv is written.
MergeDatasetsColumns ==
    /\ columns_pc = "merge_datasets"
    /\ IF /\ \A c \in InternKeyColumns : Has(intern_data_columns, c)
          /\ \A c \in SupervisorKeyColumns : Has(supervisor_data_columns, c)
       THEN /\ merged_data_columns' =
                   MergeColumns(intern_data_columns, supervisor_data_columns)
            /\ written' = written \cup {"merged_data.csv"}
            /\ columns_pc' = "complete_records_data"
       ELSE /\ columns_pc' = "KeyError"
            /\ UNCHANGED << merged_data_columns, written >>
    /\ UNCHANGED << intern_data_columns, supervisor_data_columns,
                    complete_records_columns, only_student_columns,
                    only_supervisor_columns, merged_only_columns >>
    /\ UNCHANGED << pipeline_vars, norm_vars, report_vars, poll_vars >>

\* complete_records_data(merged_data.copy())
CompleteRecordsColumns ==
    /\ columns_pc = "complete_records_data"
    /\ complete_records_columns' = InsertColumn(merged_data_columns, 0, "idx")
    /\ written' = written \cup {"complete_records.csv"}
    /\ columns_pc' = "only_student_data"
    /\ UNCHANGED << intern_data_columns, supervisor_data_columns, merged_data_columns,
                    only_student_columns, only_supervisor_columns,
                    merged_only_columns >>
    /\ UNCHANGED << pipeline_vars, norm_vars, report_vars, poll_vars >>

\* only_student_data(merged_data.copy()): the slice .loc[:, :"ssSelf_27"]
\* raises KeyError when no column has that label.
OnlyStudentColumns ==
    /\ columns_pc = "only_student_data"
    /\ LET cols == InsertColumn(merged_data_columns, 0, "idx")
       IN  IF Has(cols, "ssSelf_27")
           THEN /\ only_student_columns' = LocUpTo(cols, "ssSelf_27")
                /\ written' = written \cup {"only_students_records.csv"}
                /\ columns_pc' = "only_supervisor_data"
           ELSE /\ columns_pc' = "KeyError"
                /\ UNCHANGED << only_student_columns, written >>
    /\ UNCHANGED << intern_data_columns, supervisor_data_columns, merged_data_columns,
                    complete_records_columns, only_supervisor_columns,
                    merged_only_columns >>
    /\ UNCHANGED << pipeline_vars, norm_vars, report_vars, poll_vars >>

\* only_supervisor_data(merged_data.copy()): idx is inserted at position 33
\* (the merged table has more columns than that) and the slice starts at it.
OnlySupervisorColumns ==
    /\ columns_pc = "only_supervisor_data"
    /\ only_supervisor_columns' =
           LocFrom(InsertColumn(merged_data_columns, 33, "idx"), "idx")
    /\ written' = written \cup {"only_supervisor_records.csv"}
    /\ columns_pc' = "join_only_student_supervisor_data"
    /\ UNCHANGED << intern_data_columns, supervisor_data_columns, merged_data_columns,
                    complete_records_columns, only_student_columns,
                    merged_only_columns >>
    /\ UNCHANGED << pipeline_vars, norm_vars, report_vars, poll_vars >>

\* join_only_student_supervisor_data
JoinOnlyStudentSupervisorColumns ==
    /\ columns_pc = "join_only_student_supervisor_data"
    /\ merged_only_columns' = MergeColumns(only_student_columns, only_supervisor_columns)
    /\ written' = written \cup {"merged_only_student_supervisor_data.csv"}
    /\ columns_pc' = "processed_completed_data"
    /\ UNCHANGED << intern_data_columns, supervisor_data_columns, merged_data_columns,
                    complete_records_columns, only_student_columns,
                    only_supervisor_columns >>
    /\ UNCHANGED << pipeline_vars, norm_vars, report_vars, poll_vars >>

\* process_data, lines 345 to 358: the three final tables are written.
ProcessedColumns ==
    /\ columns_pc = "processed_completed_data"
    /\ written' = written \cup {"processed_completed_data.csv",
                                "processed_only_student_data.csv",
                                "processed_only_supervisor_data.csv"}
    /\ columns_pc' = "done"
    /\ UNCHANGED << intern_data_columns, supervisor_data_columns, merged_data_columns,
                    complete_records_columns, only_student_columns,
                    only_supervisor_columns, merged_only_columns >>
    /\ UNCHANGED << pipeline_vars, norm_vars, report_vars, poll_vars >>

NextColumns ==
    \/ MergeDatasetsColumns
    \/ CompleteRecordsColumns
    \/ OnlyStudentColumns
    \/ OnlySupervisorColumns
    \/ JoinOnlyStudentSupervisorColumns
    \/ ProcessedColumns

SpecColumns == InitColumns /\ [][NextColumns]_vars

-----------------------------------------------------------------------------
(* The normalisation merge_datasets applies to a name cell, on its own:    *)
(* a cell of up to MaxLen characters, or NaN, is normalised and the result *)
(* is normalised again.                                                    *)

\* Tab, space, a digit, upper-case and lower-case letters.
Alphabet == {9, 32, 49, 65, 97, 98}

Cells == UNION { [1..n -> Alphabet] : n \in 0..MaxLen } \cup {NULL}

InitNorm ==
    /\ norm_pc = "cell"
    /\ norm_s \in Cells
    /\ norm_once = NULL
    /\ norm_twice = NULL
    /\ PipelineIdle /\ ColumnsIdle /\ ReportIdle /\ PollIdle

NormalizeOnce ==
    /\ norm_pc = "cell"
    /\ norm_once' = Normalize(norm_s)
    /\ norm_pc' = "once"
    /\ UNCHANGED << norm_s, norm_twice >>
    /\ UNCHANGED << pipeline_vars, columns_vars, report_vars, poll_vars >>

NormalizeTwice ==
    /\ norm_pc = "once"
    /\ norm_twice' = Normalize(norm_once)
    /\ norm_pc' = "twice"
    /\ UNCHANGED << norm_s, norm_once >>
    /\ UNCHANGED << pipeline_vars, columns_vars, report_vars, poll_vars >>

NextNorm ==
    \/ NormalizeOnce
    \/ NormalizeTwice

SpecNorm == InitNorm /\ [][NextNorm]_vars

-----------------------------------------------------------------------------
(* generate_complete_report and generate_only_supervisor_report on one     *)
(* row, from the reading of the feedback cells to the text the report      *)
(* prints.                                                                 *)

\* "ok", "", " ", "nan", "NaN", and cells that are not strings.
FeedbackCells ==
    { Str(<< 111, 107 >>), Str(<< >>), Str(<< 32 >>), Str(<< 110, 97, 110 >>),
      Str(<< 78, 97, 78 >>), NaN, None, Integer(0), Integer(5) }

InitReport ==
    /\ report_pc = "improveText"
    /\ report_fn \in {"generate_complete_report", "generate_only_supervisor_report"}
    /\ row \in [improveText : FeedbackCells, strengthText : FeedbackCells]
    /\ improv = Unbound
    /\ streng = Unbound
    /\ PipelineIdle /\ ColumnsIdle /\ NormIdle /\ PollIdle

\* lines 204 to 207, and 540 to 543
ReadImproveText ==
    /\ report_pc = "improveText"
    /\ improv' = IF NotFeedback(row.improveText) THEN NoFeedback
                 ELSE row.improveText.value
    /\ report_pc' = "strengthText"
    /\ UNCHANGED << report_fn, row, streng >>
    /\ UNCHANGED << pipeline_vars, columns_vars, norm_vars, poll_vars >>

\* lines 209 to 212, and 545 to 548: the default is assigned to improv.
ReadStrengthText ==
    /\ report_pc = "strengthText"
    /\ IF NotFeedback(row.strengthText)
       THEN improv' = NoFeedback /\ UNCHANGED streng
       ELSE streng' = row.strengthText.value /\ UNCHANGED improv
    /\ report_pc' = "call"
    /\ UNCHANGED << report_fn, row >>
    /\ UNCHANGED << pipeline_vars, columns_vars, norm_vars, poll_vars >>

\* lines 215 and 551: reading a local that was never assigned raises
\* UnboundLocalError.
CallReport ==
    /\ report_pc = "call"
    /\ report_pc' = IF improv = Unbound \/ streng = Unbound THEN "UnboundLocalError"
                    ELSE IF report_fn = "generate_complete_report"
                         THEN "generate_report_with_supervisor"
                         ELSE "generate_report_without_student"
    /\ UNCHANGED << report_fn, row, improv, streng >>
    /\ UNCHANGED << pipeline_vars, columns_vars, norm_vars, poll_vars >>

\* generate_report_with_supervisor replaces empty and 'nan' feedback.
GenerateReportWithSupervisor ==
    /\ report_pc = "generate_report_with_supervisor"
    /\ improv' = IF EmptyOrNan(improv) THEN NoFeedback ELSE improv
    /\ streng' = IF EmptyOrNan(streng) THEN NoFeedback ELSE streng
    /\ report_pc' = "report"
    /\ UNCHANGED << report_fn, row >>
    /\ UNCHANGED << pipeline_vars, columns_vars, norm_vars, poll_vars >>

\* generate_report_without_student prints the feedback as it got it.
GenerateReportWithoutStudent ==
    /\ report_pc = "generate_report_without_student"
    /\ report_pc' = "report"
    /\ UNCHANGED << report_fn, row, improv, streng >>
    /\ UNCHANGED << pipeline_vars, columns_vars, norm_vars, poll_vars >>

NextReport ==
    \/ ReadImproveText
    \/ ReadStrengthText
    \/ CallReport
    \/ GenerateReportWithSupervisor
    \/ GenerateReportWithoutStudent

SpecReport == InitReport /\ [][NextReport]_vars

-----------------------------------------------------------------------------
(* download_survey: the export is started, polled, downloaded and          *)
(* extracted.  The responses of the server are any the code can read: a    *)
(* key is there or not, and .get gives None or the default when it is not. *)

\* What .get("progressId") and .get("fileId") can give.
Ids == { None, Str(<< >>), Str(<< 70 >>) }

\* What the "status" key of a poll response can hold; "absent" is a
\* response without the key.
Statuses == {"absent", "inProgress", "complete", "failed"}

\* What .get("percentComplete", 0) can give.
Percents == {0, 50, 100}

\* not progress_id
Falsy(v) == v = None \/ v = Str(<< >>)

InitPoll ==
    /\ poll_pc = "initiate_export"
    /\ progress_id = None
    /\ progress_status = "unset"
    /\ file_id = None
    /\ percent_complete = Unbound
    /\ polls = 0
    /\ download_url = << >>
    /\ PipelineIdle /\ ColumnsIdle /\ NormIdle /\ ReportIdle

\* Step 1: the export is started; without a progressId the script exits.
InitiateExport ==
    /\ poll_pc = "initiate_export"
    /\ \E id \in Ids :
          /\ progress_id' = id
          /\ IF Falsy(id)
             THEN poll_pc' = "sys.exit(2)" /\ UNCHANGED progress_status
             ELSE poll_pc' = "poll" /\ progress_status' = "inProgress"
    /\ UNCHANGED << file_id, percent_complete, polls, download_url >>
    /\ UNCHANGED << pipeline_vars, columns_vars, norm_vars, report_vars >>

\* Step 2, one turn of the while loop.
Poll ==
    /\ poll_pc = "poll"
    /\ progress_status \notin {"complete", "failed"} /\ file_id = None
    /\ polls < MaxPolls
    /\ \E status \in Statuses : \E id \in Ids : \E percent \in Percents :
          /\ progress_status' = IF status = "absent" THEN progress_status ELSE status
          /\ file_id' = id
          /\ percent_complete' = Num(percent)
    /\ polls' = polls + 1
    /\ UNCHANGED << poll_pc, progress_id, download_url >>
    /\ UNCHANGED << pipeline_vars, columns_vars, norm_vars, report_vars >>

\* The loop is left; a failed export raises.
RaiseIfFailed ==
    /\ poll_pc = "poll"
    /\ ~(progress_status \notin {"complete", "failed"} /\ file_id = None)
    /\ poll_pc' = IF progress_status = "failed" THEN "Exception" ELSE "download"
    /\ UNCHANGED << progress_id, progress_status, file_id, percent_complete, polls,
                    download_url >>
    /\ UNCHANGED << pipeline_vars, columns_vars, norm_vars, report_vars >>

\* Step 3: the file is requested at f"{base_url}{file_id}/file".
Download ==
    /\ poll_pc = "download"
    /\ download_url' = << "base_url", file_id, "/file" >>
    /\ poll_pc' = "extract"
    /\ UNCHANGED << progress_id, progress_status, file_id, percent_complete, polls >>
    /\ UNCHANGED << pipeline_vars, columns_vars, norm_vars, report_vars >>

\* Step 4: the ZIP file is extracted.
Extract ==
    /\ poll_pc = "extract"
    /\ poll_pc' = "done"
    /\ UNCHANGED << progress_id, progress_status, file_id, percent_complete, polls,
                    download_url >>
    /\ UNCHANGED << pipeline_vars, columns_vars, norm_vars, report_vars >>

NextPoll ==
    \/ InitiateExport
    \/ Poll
    \/ RaiseIfFailed
    \/ Download
    \/ Extract

SpecPoll == InitPoll /\ [][NextPoll]_vars

-----------------------------------------------------------------------------
(* Vocabulary of the properties                                            *)

Partitioned == pc \notin {"merge_datasets", "complete_records_data",
                          "only_student_data", "only_supervisor_data"}

Resolved == pc \notin {"merge_datasets", "complete_records_data", "only_student_data",
                       "only_supervisor_data", "join_only_student_supervisor_data"}

IdxOf(t) == { t[k].idx : k \in DOMAIN t }

NullCount(k) == Cardinality({ c \in DOMAIN k : k[c] = NULL })

\* The partition a joined row is a candidate of, by the nulls of its key fields.
RowClass(r) ==
    LET a == NullCount(MergeKeyLeft(r))
        b == NullCount(MergeKeyRight(r))
    IN  IF a = 0 /\ b = 0 THEN "Complete"
        ELSE IF a = 0 /\ b = 4 THEN "OnlyIntern"
        ELSE IF a = 4 /\ b = 0 THEN "OnlySupervisor"
        ELSE "None"

ClassKey(r) == IF RowClass(r) = "OnlySupervisor" THEN MergeKeyRight(r) ELSE MergeKeyLeft(r)

\* An earlier joined row of the same class has the same MatchKey4.
LaterDuplicate(p) ==
    \E q \in 1..(p - 1) :
        /\ RowClass(merged_data[q]) = RowClass(merged_data[p])
        /\ ClassKey(merged_data[q]) = ClassKey(merged_data[p])

\* The joined row at position p is kept by the Partitioner.
Survives(p) == RowClass(merged_data[p]) # "None" /\ ~LaterDuplicate(p)

JoinedRowsOfIntern(i) == { p \in DOMAIN merged_data : merged_data[p].ssSelf = Num(i) }

JoinedRowsOfSupervisor(j) == { p \in DOMAIN merged_data : merged_data[p].ssSup = Num(j) }

InFinalCompleteIntern(i) ==
    \E k \in DOMAIN processed_completed_data : processed_completed_data[k].ssSelf = Num(i)

InFinalCompleteSupervisor(j) ==
    \E k \in DOMAIN processed_completed_data : processed_completed_data[k].ssSup = Num(j)

InFinalOnlyIntern(i) ==
    \E k \in DOMAIN processed_only_student_data : processed_only_student_data[k].ssSelf = Num(i)

InFinalOnlySupervisor(j) ==
    \E k \in DOMAIN processed_only_supervisor_data :
        processed_only_supervisor_data[k].ssSup = Num(j)

ExactlyOne(a, b) == (a \/ b) /\ ~(a /\ b)

-----------------------------------------------------------------------------
\* C1 (as stated): after process_data every intern submission is in exactly one
\* of FinalComplete and FinalOnlyIntern, and every supervisor submission in
\* exactly one of FinalComplete and FinalOnlySupervisor, except the submissions
\* whose joined rows the Partitioner drops for their null key fields.  The
\* exception is taken at its widest: every joined row that fits none of the
\* three null patterns, the rows whose key fields are all null included.
C1_AsStated ==
    pc = "done" =>
        /\ \A i \in DOMAIN intern_data :
              (\E p \in JoinedRowsOfIntern(i) : RowClass(merged_data[p]) # "None")
                  => ExactlyOne(InFinalCompleteIntern(i), InFinalOnlyIntern(i))
        /\ \A j \in DOMAIN supervisor_data :
              (\E p \in JoinedRowsOfSupervisor(j) : RowClass(merged_data[p]) # "None")
                  => ExactlyOne(InFinalCompleteSupervisor(j), InFinalOnlySupervisor(j))

\* C1 (amended): after process_data a submission that has a joined row kept by
\* the Partitioner (a row of one of the three null patterns that is not a later
\* duplicate of a row with the same MatchKey4) is in exactly one of the final
\* outputs of its side; a submission all of whose joined rows were dropped is
\* in none.
C1_ExactlyOneUnlessDropped ==
    pc = "done" =>
        /\ \A i \in DOMAIN intern_data :
              IF \E p \in JoinedRowsOfIntern(i) : Survives(p)
              THEN ExactlyOne(InFinalCompleteIntern(i), InFinalOnlyIntern(i))
              ELSE ~InFinalCompleteIntern(i) /\ ~InFinalOnlyIntern(i)
        /\ \A j \in DOMAIN supervisor_data :
              IF \E p \in JoinedRowsOfSupervisor(j) : Survives(p)
              THEN ExactlyOne(InFinalCompleteSupervisor(j), InFinalOnlySupervisor(j))
              ELSE ~InFinalCompleteSupervisor(j) /\ ~InFinalOnlySupervisor(j)

\* A run in which an intern submission reached FinalComplete and a supervisor
\* submission reached no output, its joined row being a later duplicate.
C1_Witness ==
    /\ pc = "done"
    /\ \E i \in DOMAIN intern_data : InFinalCompleteIntern(i)
    /\ \E j \in DOMAIN supervisor_data :
          /\ ~InFinalCompleteSupervisor(j) /\ ~InFinalOnlySupervisor(j)
          /\ \E p \in JoinedRowsOfSupervisor(j) : LaterDuplicate(p)

\* C2: no submission contributes to rows of two different final outputs.
C2_NoSubmissionInTwoOutputs ==
    pc = "done" =>
        /\ \A i \in DOMAIN intern_data :
              ~(InFinalCompleteIntern(i) /\ InFinalOnlyIntern(i))
        /\ \A j \in DOMAIN supervisor_data :
              ~(InFinalCompleteSupervisor(j) /\ InFinalOnlySupervisor(j))

\* The exclusion had work to do: a resolved pair reached FinalComplete while
\* another intern submission stayed in FinalOnlyIntern.
C2_Witness ==
    /\ pc = "done"
    /\ merged_only # << >>
    /\ processed_only_student_data # << >>
    /\ Len(processed_only_student_data) < Len(only_student_data_df)

InPartition(c, p) ==
    CASE c = "Complete"       -> Num(p - 1) \in IdxOf(complete_records)
      [] c = "OnlyIntern"     -> Num(p - 1) \in IdxOf(only_student_data_df)
      [] c = "OnlySupervisor" -> Num(p - 1) \in IdxOf(only_supervisor_data_df)

Partitions == {"Complete", "OnlyIntern", "OnlySupervisor"}

\* C3 (as stated): every row of the joined table is, by its rowId, in exactly one
\* of Complete, OnlyIntern, OnlySupervisor and the class of the rows dropped for
\* their null key fields.  That class is taken at its widest: every joined row
\* that fits none of the three null patterns.
C3_AsStated ==
    Partitioned =>
        \A p \in DOMAIN merged_data :
            Cardinality({ c \in Partitions : InPartition(c, p) })
                + (IF RowClass(merged_data[p]) = "None" THEN 1 ELSE 0) = 1

\* C3 (amended): every row of the joined table is, by its rowId, in exactly one
\* of Complete, OnlyIntern, OnlySupervisor and the dropped class, the dropped
\* rows being those that fit none of the three null patterns and the later
\* duplicates; a kept row is in the partition of its null pattern.
C3_ExactlyOneClass ==
    Partitioned =>
        \A p \in DOMAIN merged_data :
            /\ Cardinality({ c \in Partitions : InPartition(c, p) })
                  + (IF Survives(p) THEN 0 ELSE 1) = 1
            /\ Survives(p) => InPartition(RowClass(merged_data[p]), p)

\* All four classes occur in one joined table.
C3_Witness ==
    /\ Partitioned
    /\ complete_records # << >>
    /\ \E p \in DOMAIN merged_data : RowClass(merged_data[p]) = "None"
    /\ \E p \in DOMAIN merged_data : LaterDuplicate(p)

\* C4: an OnlyIntern row and an OnlySupervisor row with the same student name
\* and different supervisor names are paired by exactly one Resolved row, which
\* is in FinalComplete, and their rowIds are absent from FinalOnlyIntern and
\* FinalOnlySupervisor.
C4_SecondaryRecovery ==
    pc = "done" =>
        \A a \in Range(only_student_data_df) : \A b \in Range(only_supervisor_data_df) :
            ( /\ a.stuFirst = b.firstNameIntern
              /\ a.stuLast = b.lastNameIntern
              /\ << a.supLinkFirst, a.supLinkLast >> # << b.supFirst, b.supLast >> )
            => /\ Cardinality({ k \in DOMAIN merged_only :
                                  /\ merged_only[k].idx_x = a.idx
                                  /\ merged_only[k].idx_y = b.idx }) = 1
               /\ \E k \in DOMAIN processed_completed_data :
                     /\ processed_completed_data[k].idx_x = a.idx
                     /\ processed_completed_data[k].idx_y = b.idx
                     /\ processed_completed_data[k].ssSelf = a.ssSelf
                     /\ processed_completed_data[k].ssSup = b.ssSup
               /\ a.idx \notin IdxOf(processed_only_student_data)
               /\ b.idx \notin IdxOf(processed_only_supervisor_data)

\* A recovered pair next to a supervisor row of another student, which stays.
C4_Witness ==
    /\ pc = "done"
    /\ merged_only # << >>
    /\ processed_only_supervisor_data # << >>

\* Equality of two keys when a null equals nothing.
SqlEqual(k1, k2) == k1 = k2 /\ NullCount(k1) = 0

\* C5: the joined table is the full outer join on MatchKey4: one row per
\* matching pair, one row with null supervisor fields per unmatched intern row,
\* one row with null intern fields per unmatched supervisor row, nothing else.
C5_FullOuterJoin ==
    pc # "merge_datasets" =>
        LET pairs == { x \in (DOMAIN intern_data) \X (DOMAIN supervisor_data) :
                         SqlEqual(MergeKeyLeft(intern_data[x[1]]),
                                  MergeKeyRight(supervisor_data[x[2]])) }
            loneI == { i \in DOMAIN intern_data : \A x \in pairs : x[1] # i }
            loneS == { j \in DOMAIN supervisor_data : \A x \in pairs : x[2] # j }
            Rows(r) == Cardinality({ p \in DOMAIN merged_data : merged_data[p] = r })
        IN  /\ \A x \in pairs : Rows(Both(intern_data[x[1]], supervisor_data[x[2]])) = 1
            /\ \A i \in loneI : Rows(LeftOnly(intern_data[i])) = 1
            /\ \A j \in loneS : Rows(RightOnly(supervisor_data[j])) = 1
            /\ Len(merged_data) = Cardinality(pairs) + Cardinality(loneI) + Cardinality(loneS)

\* C6: no joined row pairs an intern row with a supervisor row through a null
\* key component, and no Resolved row pairs through a null student name.
C6_NullNeverMatches ==
    /\ pc # "merge_datasets" =>
          \A p \in DOMAIN merged_data :
              (merged_data[p].ssSelf # NULL /\ merged_data[p].ssSup # NULL)
                  => NullCount(MergeKeyLeft(merged_data[p]) \o MergeKeyRight(merged_data[p])) = 0
    /\ Resolved =>
          \A k \in DOMAIN merged_only :
              NullCount(JoinKeyLeft(merged_only[k]) \o JoinKeyRight(merged_only[k])) = 0

PartitionTable(c) ==
    CASE c = "Complete"       -> complete_records
      [] c = "OnlyIntern"     -> only_student_data_df
      [] c = "OnlySupervisor" -> only_supervisor_data_df

PartitionKey(c, r) == IF c = "OnlyIntern" THEN MergeKeyLeft(r) ELSE MergeKeyRight(r)

\* C7: within a partition no two rows have the same MatchKey4, and of the joined
\* rows of a class that share a key the partition holds exactly the first.
C7_DedupKeepsFirst ==
    Partitioned =>
        \A c \in Partitions :
            LET t == PartitionTable(c)
            IN  /\ \A m, n \in DOMAIN t :
                      PartitionKey(c, t[m]) = PartitionKey(c, t[n]) => m = n
                /\ \A p \in DOMAIN merged_data :
                      RowClass(merged_data[p]) = c =>
                          \E m \in DOMAIN t :
                              /\ PartitionKey(c, t[m]) = PartitionKey(c, merged_data[p])
                              /\ t[m].idx[1] <= p - 1
                              /\ RowClass(merged_data[t[m].idx[1] + 1]) = c

\* A duplicate was dropped from OnlySupervisor and another from Complete or
\* OnlyIntern.
C7_Witness ==
    /\ Partitioned
    /\ \E p \in DOMAIN merged_data :
          RowClass(merged_data[p]) = "OnlySupervisor" /\ LaterDuplicate(p)
    /\ \E p \in DOMAIN merged_data :
          RowClass(merged_data[p]) # "OnlySupervisor" /\ LaterDuplicate(p)

\* C8: Resolved is the inner join of OnlyIntern and OnlySupervisor on the student
\* name: one row per pair of rows with the same student name, carrying the two
\* rows and their rowIds as idx_x and idx_y, and no other row.
C8_InnerJoin ==
    Resolved =>
        LET pairs == { x \in (DOMAIN only_student_data_df) \X (DOMAIN only_supervisor_data_df) :
                         /\ only_student_data_df[x[1]].stuFirst
                               = only_supervisor_data_df[x[2]].firstNameIntern
                         /\ only_student_data_df[x[1]].stuLast
                               = only_supervisor_data_df[x[2]].lastNameIntern }
            Pairs(k, x) ==
                LET a == only_student_data_df[x[1]]
                    b == only_supervisor_data_df[x[2]]
                    r == merged_only[k]
                IN  /\ r.idx_x = a.idx /\ r.idx_y = b.idx
                    /\ \A c \in InternColumns : r[c] = a[c]
                    /\ \A c \in SupervisorColumns : r[c] = b[c]
        IN  /\ \A x \in pairs :
                  Cardinality({ k \in DOMAIN merged_only : Pairs(k, x) }) = 1
            /\ \A k \in DOMAIN merged_only : \E x \in pairs : Pairs(k, x)
            /\ Len(merged_only) = Cardinality(pairs)

\* One student name maps to several rows of a side, and a row of another
\* student is left out.
C8_Witness ==
    /\ Resolved
    /\ Len(merged_only) >= 2
    /\ Len(merged_only) < Len(only_student_data_df) * Len(only_supervisor_data_df)

IsSubsequence(s, t) ==
    \E f \in [DOMAIN s -> DOMAIN t] :
        /\ \A m \in DOMAIN s : s[m] = t[f[m]]
        /\ \A m, n \in DOMAIN s : m < n => f[m] < f[n]

\* C9: FinalOnlyIntern holds exactly the OnlyIntern rows whose rowId is not an
\* idx_x of Resolved, FinalOnlySupervisor exactly the OnlySupervisor rows whose
\* rowId is not an idx_y of Resolved, each row once, unchanged and in order.
C9_FinalOnlyTables ==
    pc = "done" =>
        /\ Range(processed_only_student_data) =
              { r \in Range(only_student_data_df) :
                  \A k \in DOMAIN merged_only : merged_only[k].idx_x # r.idx }
        /\ Range(processed_only_supervisor_data) =
              { r \in Range(only_supervisor_data_df) :
                  \A k \in DOMAIN merged_only : merged_only[k].idx_y # r.idx }
        /\ IsSubsequence(processed_only_student_data, only_student_data_df)
        /\ IsSubsequence(processed_only_supervisor_data, only_supervisor_data_df)

\* Rows were removed from one "only" table and rows stayed in the other.
C9_Witness ==
    /\ pc = "done"
    /\ Len(processed_only_supervisor_data) < Len(only_supervisor_data_df)
    /\ processed_only_supervisor_data # << >>

\* C10: FinalComplete is Complete followed by Resolved, every row once and
\* unchanged (the columns a row does not have are null), and nothing else.
C10_Concatenation ==
    pc \in {"processed_only_student_data", "processed_only_supervisor_data", "done"} =>
        /\ Len(processed_completed_data) = Len(complete_records) + Len(merged_only)
        /\ \A k \in DOMAIN complete_records :
              LET r == processed_completed_data[k]
              IN  /\ \A c \in DOMAIN complete_records[k] : r[c] = complete_records[k][c]
                  /\ r.idx_x = NULL /\ r.idx_y = NULL
        /\ \A k \in DOMAIN merged_only :
              LET r == processed_completed_data[Len(complete_records) + k]
              IN  /\ \A c \in DOMAIN merged_only[k] : r[c] = merged_only[k][c]
                  /\ r.idx = NULL

\* Both parts are present.
C10_Witness ==
    /\ pc = "done"
    /\ complete_records # << >>
    /\ merged_only # << >>

\* C11: no joined row and no submission that contributes to a Resolved row
\* contributes to a row of Complete.
C11_NoDoubleCounting ==
    Resolved =>
        \A k \in DOMAIN merged_only : \A c \in DOMAIN complete_records :
            /\ merged_only[k].idx_x # complete_records[c].idx
            /\ merged_only[k].idx_y # complete_records[c].idx
            /\ merged_only[k].ssSelf # complete_records[c].ssSelf
            /\ merged_only[k].ssSup # complete_records[c].ssSup

\* A student has a Complete row from one pair of submissions and a Resolved row
\* from another pair.
C11_Witness ==
    /\ Resolved
    /\ \E k \in DOMAIN merged_only : \E c \in DOMAIN complete_records :
          JoinKeyLeft(merged_only[k]) = JoinKeyLeft(complete_records[c])

\* C12: every row of FinalComplete has a non-null value in the four intern-side
\* and the four supervisor-side key fields.
C12_FinalCompleteKeysNotNull ==
    pc \in {"processed_only_student_data", "processed_only_supervisor_data", "done"} =>
        \A k \in DOMAIN processed_completed_data :
            \A c \in key_columns : processed_completed_data[k][c] # NULL

\* FinalComplete has a Resolved row although the joined table had a row with
\* null key fields that fits no partition.
C12_Witness ==
    /\ pc = "done"
    /\ \E k \in DOMAIN processed_completed_data : processed_completed_data[k].idx = NULL
    /\ \E p \in DOMAIN merged_data : RowClass(merged_data[p]) = "None"

\* C13: in each partition idx is the zero-based position of the row in the
\* table merge_datasets returned, the row's cells are that joined row's cells,
\* idx is distinct within the partition, and the joined table is still the one
\* merge_datasets returned after the partitions were derived.
C13_RowIdIsJoinedPosition ==
    Partitioned =>
        /\ merged_data = OuterMerge(intern_data, supervisor_data)
        /\ \A c \in Partitions :
              LET t == PartitionTable(c)
              IN  /\ \A m, n \in DOMAIN t : t[m].idx = t[n].idx => m = n
                  /\ \A m \in DOMAIN t :
                        /\ Len(t[m].idx) = 1
                        /\ t[m].idx[1] + 1 \in DOMAIN merged_data
                        /\ \A col \in DOMAIN t[m] \ {"idx"} :
                              t[m][col] = merged_data[t[m].idx[1] + 1][col]

\* An OnlyIntern row that is not the first row of the joined table, next to a
\* row of another partition.
C13_Witness ==
    /\ Partitioned
    /\ \E m \in DOMAIN only_student_data_df : only_student_data_df[m].idx # Num(0)
    /\ only_supervisor_data_df # << >>

IsSpaces(s) == \A i \in DOMAIN s : s[i] \in Whitespace

\* The same characters, letter case aside.
SameLetters(s, t) ==
    /\ Len(s) = Len(t)
    /\ \A i \in DOMAIN s :
          \/ s[i] = t[i]
          \/ s[i] \in 65..90 /\ t[i] = s[i] + 32
          \/ t[i] \in 65..90 /\ s[i] = t[i] + 32

\* core is s without its leading and trailing whitespace.
Trims(s, core) ==
    \E i \in 1..(Len(s) + 1) : \E j \in 0..Len(s) :
        /\ core = SubSeq(s, i, j)
        /\ IsSpaces(SubSeq(s, 1, i - 1))
        /\ IsSpaces(SubSeq(s, j + 1, Len(s)))
        /\ core # << >> => (core[1] \notin Whitespace /\ core[Len(core)] \notin Whitespace)

\* Two name cells are equal up to letter case and leading/trailing whitespace;
\* a null cell equals nothing.
SameUpToCaseAndSpace(a, b) ==
    /\ a # NULL /\ b # NULL
    /\ \E i \in 1..(Len(a) + 1) : \E j \in 0..Len(a) :
          /\ Trims(a, SubSeq(a, i, j))
          /\ \E k \in 1..(Len(b) + 1) : \E l \in 0..Len(b) :
                Trims(b, SubSeq(b, k, l)) /\ SameLetters(SubSeq(a, i, j), SubSeq(b, k, l))

\* One intern row and one supervisor row with keys equal up to case and
\* whitespace are joined into one paired row.
C14_Paired ==
    ( /\ pc = "merge_datasets"
      /\ Len(intern_data) = 1 /\ Len(supervisor_data) = 1
      /\ \A c \in 1..4 : SameUpToCaseAndSpace(MergeKeyLeft(intern_data[1])[c],
                                              MergeKeyRight(supervisor_data[1])[c]) )
    => /\ Len(merged_data') = 1
       /\ merged_data'[1].ssSelf = Num(1) /\ merged_data'[1].ssSup = Num(1)
       /\ NullCount(MergeKeyLeft(merged_data'[1]) \o MergeKeyRight(merged_data'[1])) = 0

\* A joined table of one paired row gives one FinalComplete row with both
\* submissions and empty FinalOnlyIntern and FinalOnlySupervisor.
C14_OneFinalRow ==
    ( /\ pc = "done"
      /\ Len(merged_data) = 1
      /\ NullCount(MergeKeyLeft(merged_data[1]) \o MergeKeyRight(merged_data[1])) = 0 )
    => /\ Len(processed_completed_data) = 1
       /\ processed_completed_data[1].ssSelf = merged_data[1].ssSelf
       /\ processed_completed_data[1].ssSup = merged_data[1].ssSup
       /\ processed_only_student_data = << >>
       /\ processed_only_supervisor_data = << >>

\* Rows whose normalised keys differ in a component, a null component
\* differing from everything, are not paired by the primary join.
C14_NothingElsePaired ==
    pc # "merge_datasets" =>
        \A p \in DOMAIN merged_data :
            (merged_data[p].ssSelf # NULL /\ merged_data[p].ssSup # NULL)
                => \A c \in 1..4 :
                      /\ MergeKeyLeft(merged_data[p])[c] # NULL
                      /\ MergeKeyLeft(merged_data[p])[c] = MergeKeyRight(merged_data[p])[c]

C15_InputsUnchanged ==
    [][pc = "merge_datasets" =>
          (intern_data' = intern_data /\ supervisor_data' = supervisor_data)]_vars

RequiredColumnsPresent ==
    /\ \A i \in DOMAIN InternSchema : Has(intern_data_columns, InternSchema[i])
    /\ \A j \in DOMAIN SupervisorSchema : Has(supervisor_data_columns, SupervisorSchema[j])

\* C16: when a required column is absent from an input table the run fails,
\* and at the moment the error is raised no result table has been written.
C16_NoPartialOutput ==
    /\ columns_pc = "KeyError" => written = {}
    /\ columns_pc = "done" => RequiredColumnsPresent

\* The columns of merged_data that come from the intern table are its first
\* Len(intern_data_columns) ones, the others come from the supervisor table.
InternOrigin(name) ==
    \E i \in 1..Len(intern_data_columns) : merged_data_columns[i] = name

SupervisorOrigin(name) ==
    \E i \in (Len(intern_data_columns) + 1)..Len(merged_data_columns) :
        merged_data_columns[i] = name

\* C17: when the input tables have the required columns, with or without
\* further ones, OnlyIntern holds intern-origin columns and rowId only and
\* OnlySupervisor holds supervisor-origin columns and rowId only.
C17_OnlyOwnColumns ==
    ( /\ RequiredColumnsPresent
      /\ columns_pc \in {"join_only_student_supervisor_data",
                         "processed_completed_data", "done"} )
    => /\ \A i \in DOMAIN only_student_columns :
             only_student_columns[i] = "idx" \/ InternOrigin(only_student_columns[i])
       /\ \A i \in DOMAIN only_supervisor_columns :
             \/ only_supervisor_columns[i] = "idx"
             \/ SupervisorOrigin(only_supervisor_columns[i])

\* C18: normalising a normalised cell changes nothing, and a null stays null.
C18_Idempotent ==
    /\ norm_pc = "twice" => norm_twice = norm_once
    /\ (norm_pc \in {"once", "twice"} /\ norm_s = NULL) => norm_once = NULL
    /\ (norm_pc = "twice" /\ norm_s = NULL) => norm_twice = NULL

\* A cell with letters to lower and whitespace to strip at both ends has been
\* normalised twice.
C18_Witness ==
    /\ norm_pc = "twice"
    /\ norm_s = << 32, 65, 9 >>
    /\ norm_once = << 97 >>

\* The text the report function is to get for a feedback cell.
FeedbackText(v) == IF v.type = "str" THEN v.value ELSE NoFeedback

\* C19: whatever the row's improveText and strengthText are, the report
\* function is called with improv and streng bound, a string passed as it is
\* and anything else replaced by the default, and nothing is raised.
C19_FeedbackAlwaysBound ==
    /\ report_pc # "UnboundLocalError"
    /\ report_pc \in {"generate_report_with_supervisor",
                      "generate_report_without_student"}
          => /\ improv = FeedbackText(row.improveText)
             /\ streng = FeedbackText(row.strengthText)

\* C20: the download request and the extraction happen only after a poll has
\* returned a non-null fileId, and never after the last poll reported the
\* status 'failed', in which case 'Export failed' is raised before any download.
C20_DownloadOnlyWithFileId ==
    /\ poll_pc \in {"extract", "done"} => (file_id # None /\ progress_status # "failed")
    /\ (poll_pc \in {"download", "extract", "done", "Exception"}
           /\ progress_status = "failed")
          => (poll_pc = "Exception" /\ download_url = << >>)

\* C21: after process_data no row of FinalOnlyIntern and no row of
\* FinalOnlySupervisor name the same student.
C21_NoSharedStudent ==
    pc = "done" =>
        \A a \in Range(processed_only_student_data) :
            \A b \in Range(processed_only_supervisor_data) :
                ~(a.stuFirst = b.firstNameIntern /\ a.stuLast = b.lastNameIntern)

\* One student's intern row was matched by two supervisor rows in the
\* secondary pass, and an intern row of another student stays in FinalOnlyIntern.
C21_Witness ==
    /\ pc = "done"
    /\ Len(merged_only) >= 2
    /\ \E k \in DOMAIN only_supervisor_data_df :
          only_supervisor_data_df[k].idx \notin IdxOf(processed_only_supervisor_data)
    /\ processed_only_student_data # << >>

====
